---- MODULE Spec2Model ----
(***************************************************************************)
(* autoname_workspaces.py: workspace-name reconciliation for i3.           *)
(*                                                                         *)
(* Strings are sequences of one-character strings, so that lower-casing,   *)
(* prefix matching, number formatting and name parsing are computed and    *)
(* not assumed.  A Font Awesome glyph is one character, written as the     *)
(* glyph's name in fa.icons ("firefox", "terminal", ...); the superscript  *)
(* and subscript digits are the characters "^0".."^9" and "_0".."_9".      *)
(***************************************************************************)
EXTENDS Integers, Sequences, FiniteSets, TLC

VARIABLES
  RENUMBER_WORKSPACES,       \* line 147, overridden from the command line at 275
  SINGLE_ICON_ONLY,          \* line 142
  CHECK_WINDOW_NAMES_FIRST,  \* line 150
  REQUIRE_EXACT_NAME_MATCH,  \* line 154
  icon_list_format,          \* args.icon_list_format
  lowercased,    \* times ensure_window_icons_lowercase has run: WINDOW_ICONS and
                 \* WINDOW_NAMES are as written in the source (0) or as it left them
  ws,            \* the window manager's workspaces, in tree order
  queue,         \* events the window manager has emitted, not yet delivered
  pc,            \* "boot", "start", "queried", "pass", "idle", "exit", "exited", "exit_raised", "crashed"
  ws_infos,      \* rename_workspaces: reply of i3.get_workspaces()
  tree,          \* the pass's snapshot: i3.get_tree().workspaces()
  idx,           \* number of workspaces of the snapshot already processed
  n,             \* rename_workspaces: the running counter
  prev_output,   \* rename_workspaces: output of the previous workspace
  cmds,          \* commands issued by the current pass, with their outcome
  icon_lists,    \* per processed workspace, the list handed to the formatter
  formatted_icons, \* per processed workspace, new_icons
  computed,      \* per processed workspace, the computed new name
  new_nums,      \* per processed workspace, new_num
  npass,         \* passes of rename_workspaces started so far
  delivered,     \* events handed to event_handler so far, in order
  dirty,         \* the workspaces changed, or a command failed, since the pass began
  prev_clean,    \* 0, or 1 + the number of commands of the previous pass when that pass
                 \* completed, all its commands were applied and nothing has changed since
  budget,        \* window-manager changes still allowed
  win,           \* icon resolution alone: the window
  class_icon_out,  \* icon resolution alone: class_icon, line 188
  name_icon_out,   \* icon resolution alone: name_icon, line 189
  icon_out       \* icon resolution alone: the icon returned

vars ==
  << RENUMBER_WORKSPACES, SINGLE_ICON_ONLY, CHECK_WINDOW_NAMES_FIRST,
     REQUIRE_EXACT_NAME_MATCH, icon_list_format, lowercased, ws, queue, pc,
     ws_infos, tree, idx, n, prev_output, cmds, icon_lists, formatted_icons, computed, new_nums,
     npass, delivered, dirty,
     prev_clean, budget, win, class_icon_out, name_icon_out, icon_out >>

-----------------------------------------------------------------------------
(* Characters and strings *)

None == "None"

DigitChars == <<"0","1","2","3","4","5","6","7","8","9">>

UpperChars ==
  <<"A","B","C","D","E","F","G","H","I","J","K","L","M",
    "N","O","P","Q","R","S","T","U","V","W","X","Y","Z">>

LowerChars ==
  <<"a","b","c","d","e","f","g","h","i","j","k","l","m",
    "n","o","p","q","r","s","t","u","v","w","x","y","z">>

Range(s) == { s[i] : i \in 1..Len(s) }

Min(S) == CHOOSE x \in S : \A y \in S : x <= y

UpperSet == Range(UpperChars)

DigitSet == Range(DigitChars)

lower_char(c) ==
  IF c \in UpperSet
    THEN LowerChars[CHOOSE i \in 1..Len(UpperChars) : UpperChars[i] = c]
    ELSE c

lower(s) == [i \in 1..Len(s) |-> lower_char(s[i])]

startswith(s, k) == Len(k) <= Len(s) /\ SubSeq(s, 1, Len(k)) = k

RECURSIVE str(_)
str(k) ==
  IF k < 10 THEN <<DigitChars[k + 1]>>
  ELSE str(k \div 10) \o <<DigitChars[(k % 10) + 1]>>

digit_value(c) == (CHOOSE i \in 1..10 : DigitChars[i] = c) - 1

RECURSIVE int(_)
int(s) ==
  IF s = <<>> THEN 0
  ELSE 10 * int(SubSeq(s, 1, Len(s) - 1)) + digit_value(s[Len(s)])

-----------------------------------------------------------------------------
(* The icon tables, in source order (a dict keeps insertion order) *)

WINDOW_ICONS ==
  <<
    [key |-> <<"a","l","a","c","r","i","t","t","y">>, icon |-> "terminal"],
    [key |-> <<"a","t","o","m">>, icon |-> "code"],
    [key |-> <<"b","a","n","s","h","e","e">>, icon |-> "play"],
    [key |-> <<"b","l","e","n","d","e","r">>, icon |-> "cube"],
    [key |-> <<"c","h","r","o","m","i","u","m">>, icon |-> "chrome"],
    [key |-> <<"c","u","r","a">>, icon |-> "cube"],
    [key |-> <<"d","a","r","k","t","a","b","l","e">>, icon |-> "image"],
    [key |-> <<"d","i","s","c","o","r","d">>, icon |-> "comment"],
    [key |-> <<"e","c","l","i","p","s","e">>, icon |-> "code"],
    [key |-> <<"e","m","a","c","s">>, icon |-> "code"],
    [key |-> <<"e","o","g">>, icon |-> "image"],
    [key |-> <<"e","v","i","n","c","e">>, icon |-> "file-pdf"],
    [key |-> <<"e","v","o","l","u","t","i","o","n">>, icon |-> "envelope"],
    [key |-> <<"f","e","h">>, icon |-> "image"],
    [key |-> <<"f","i","l","e","-","r","o","l","l","e","r">>, icon |-> "compress"],
    [key |-> <<"f","i","l","e","z","i","l","l","a">>, icon |-> "server"],
    [key |-> <<"f","i","r","e","f","o","x">>, icon |-> "firefox"],
    [key |-> <<"f","i","r","e","f","o","x","-","e","s","r">>, icon |-> "firefox"],
    [key |-> <<"g","i","m","p","-","2",".","8">>, icon |-> "image"],
    [key |-> <<"g","n","o","m","e","-","c","o","n","t","r","o","l","-","c","e","n","t","e","r">>, icon |-> "toggle-on"],
    [key |-> <<"g","n","o","m","e","-","t","e","r","m","i","n","a","l","-","s","e","r","v","e","r">>, icon |-> "terminal"],
    [key |-> <<"g","o","o","g","l","e","-","c","h","r","o","m","e">>, icon |-> "chrome"],
    [key |-> <<"g","p","i","c","k">>, icon |-> "eye-dropper"],
    [key |-> <<"i","m","v">>, icon |-> "image"],
    [key |-> <<"j","a","v","a">>, icon |-> "code"],
    [key |-> <<"j","e","t","b","r","a","i","n","s","-","i","d","e","a">>, icon |-> "code"],
    [key |-> <<"j","e","t","b","r","a","i","n","s","-","s","t","u","d","i","o">>, icon |-> "code"],
    [key |-> <<"k","e","e","p","a","s","s","x","c">>, icon |-> "key"],
    [key |-> <<"k","e","y","b","a","s","e">>, icon |-> "key"],
    [key |-> <<"k","i","c","a","d">>, icon |-> "microchip"],
    [key |-> <<"k","i","t","t","y">>, icon |-> "terminal"],
    [key |-> <<"l","i","b","r","e","o","f","f","i","c","e">>, icon |-> "file-alt"],
    [key |-> <<"l","u","a","5",".","1">>, icon |-> "moon"],
    [key |-> <<"l","u","t","r","i","s">>, icon |-> "steam"],
    [key |-> <<"m","p","v">>, icon |-> "tv"],
    [key |-> <<"m","u","p","d","f">>, icon |-> "file-pdf"],
    [key |-> <<"m","y","s","q","l","-","w","o","r","k","b","e","n","c","h","-","b","i","n">>, icon |-> "database"],
    [key |-> <<"n","a","u","t","i","l","u","s">>, icon |-> "copy"],
    [key |-> <<"n","e","m","o">>, icon |-> "copy"],
    [key |-> <<"o","p","e","n","s","c","a","d">>, icon |-> "cube"],
    [key |-> <<"p","a","v","u","c","o","n","t","r","o","l">>, icon |-> "volume-up"],
    [key |-> <<"p","o","s","t","m","a","n">>, icon |-> "space-shuttle"],
    [key |-> <<"r","h","y","t","h","m","b","o","x">>, icon |-> "play"],
    [key |-> <<"r","o","b","o","3","t">>, icon |-> "database"],
    [key |-> <<"s","l","a","c","k">>, icon |-> "slack"],
    [key |-> <<"s","l","i","c","3","r",".","p","l">>, icon |-> "cube"],
    [key |-> <<"s","p","o","t","i","f","y">>, icon |-> "spotify"],
    [key |-> <<"s","t","e","a","m">>, icon |-> "steam"],
    [key |-> <<"s","u","b","l">>, icon |-> "file-alt"],
    [key |-> <<"s","u","b","l","3">>, icon |-> "file-alt"],
    [key |-> <<"s","u","b","l","i","m","e","_","t","e","x","t">>, icon |-> "file-alt"],
    [key |-> <<"t","e","l","e","g","r","a","m","-","d","e","s","k","t","o","p">>, icon |-> "comment"],
    [key |-> <<"t","e","r","m","i","t","e">>, icon |-> "terminal"],
    [key |-> <<"t","h","u","n","a","r">>, icon |-> "copy"],
    [key |-> <<"t","h","u","n","d","e","r","b","i","r","d">>, icon |-> "envelope"],
    [key |-> <<"t","o","t","e","m">>, icon |-> "play"],
    [key |-> <<"u","r","x","v","t">>, icon |-> "terminal"],
    [key |-> <<"x","f","c","e","4","-","t","e","r","m","i","n","a","l">>, icon |-> "terminal"],
    [key |-> <<"x","o","u","r","n","a","l">>, icon |-> "file-alt"],
    [key |-> <<"y","e","l","p">>, icon |-> "code"],
    [key |-> <<"z","e","n","i","t","y">>, icon |-> "window-maximize"],
    [key |-> <<"z","o","o","m">>, icon |-> "comment"]
  >>

WINDOW_NAMES ==
  <<
    [key |-> <<"a","t","o","p">>, icon |-> "server"],
    [key |-> <<"b","a","s","h">>, icon |-> "terminal"],
    [key |-> <<"e","m","a","c","s">>, icon |-> "file-code"],
    [key |-> <<"g","l","a","n","c","e","s">>, icon |-> "server"],
    [key |-> <<"g","o","t","o","p">>, icon |-> "server"],
    [key |-> <<"h","t","o","p">>, icon |-> "server"],
    [key |-> <<"m","u","t","t">>, icon |-> "envelope-square"],
    [key |-> <<"n","e","o","m","u","t","t">>, icon |-> "envelope-square"],
    [key |-> <<"n","a","n","o">>, icon |-> "file-code"],
    [key |-> <<"n","n","n">>, icon |-> "folder-open"],
    [key |-> <<"n","v","i","m">>, icon |-> "file-code"],
    [key |-> <<"r","a","n","g","e","r">>, icon |-> "folder-open"],
    [key |-> <<"s","s","h">>, icon |-> "terminal"],
    [key |-> <<"s","u","d","o">>, icon |-> "user-shield"],
    [key |-> <<"t","o","p">>, icon |-> "server"],
    [key |-> <<"v","i">>, icon |-> "file-code"],
    [key |-> <<"v","i","f","m">>, icon |-> "folder-open"],
    [key |-> <<"v","i","m">>, icon |-> "file-code"],
    [key |-> <<"z","s","h">>, icon |-> "terminal"]
  >>

DEFAULT_ICON == "*"

\* ensure_window_icons_lowercase: the table with every key lower-cased.
ensure_window_icons_lowercase(table) ==
  [i \in 1..Len(table) |-> [key |-> lower(table[i].key), icon |-> table[i].icon]]

\* The tables as line 279 leaves them.
LoweredIcons == ensure_window_icons_lowercase(WINDOW_ICONS)

LoweredNames == ensure_window_icons_lowercase(WINDOW_NAMES)

\* The globals WINDOW_ICONS and WINDOW_NAMES as a lookup finds them.
CurrentIcons == IF lowercased = 0 THEN WINDOW_ICONS ELSE LoweredIcons

CurrentNames == IF lowercased = 0 THEN WINDOW_NAMES ELSE LoweredNames

-----------------------------------------------------------------------------
(* Icon resolution.  A window carries what xprop returns for WM_CLASS and  *)
(* WM_NAME: [none |-> TRUE] for None, else the list of values.             *)

xprop(window, property) ==
  IF property = "WM_NAME" THEN window.wm_name ELSE window.wm_class

\* Line 172 gone wrong: k.startswith(nam) for nam.startswith(k).
icon_of_name_value_prefix_of_key(nam) ==
  LET table == CurrentNames
  IN IF REQUIRE_EXACT_NAME_MATCH
       THEN IF \E i \in 1..Len(table) : table[i].key = nam
              THEN table[CHOOSE i \in 1..Len(table) : table[i].key = nam].icon
              ELSE None
       ELSE LET hits == { i \in 1..Len(table) : startswith(table[i].key, nam) }
            IN IF hits = {} THEN None ELSE table[Min(hits)].icon

\* Lines 167-173: the icon of one lower-cased name value, or None.
icon_of_name_value(nam) ==
  LET table == CurrentNames
  IN IF REQUIRE_EXACT_NAME_MATCH
       THEN IF \E i \in 1..Len(table) : table[i].key = nam
              THEN table[CHOOSE i \in 1..Len(table) : table[i].key = nam].icon
              ELSE None
       ELSE LET hits == { i \in 1..Len(table) : startswith(nam, table[i].key) }
            IN IF hits = {} THEN None ELSE table[Min(hits)].icon

icon_for_name(window) ==
  LET names == xprop(window, "WM_NAME")
  IN IF ~names.none /\ Len(names.vals) > 0
       THEN LET icons == [j \in 1..Len(names.vals) |->
                           icon_of_name_value(lower(names.vals[j]))]
                hits == { j \in 1..Len(names.vals) : icons[j] # None }
            IN IF hits = {} THEN None ELSE icons[Min(hits)]
       ELSE None

\* Lines 181-183: the icon of one lower-cased class value, or None.
icon_of_class_value(cls) ==
  LET table == CurrentIcons
  IN IF \E i \in 1..Len(table) : table[i].key = cls
       THEN table[CHOOSE i \in 1..Len(table) : table[i].key = cls].icon
       ELSE None

\* Line 179 gone wrong: the test for None is lost, and len(None) raises TypeError.
icon_for_class_unguarded(window) ==
  LET classes == xprop(window, "WM_CLASS")
  IN IF classes.none THEN "TypeError"
     ELSE LET icons == [j \in 1..Len(classes.vals) |->
                         icon_of_class_value(lower(classes.vals[j]))]
              hits == { j \in 1..Len(classes.vals) : icons[j] # None }
          IN IF hits = {} THEN None ELSE icons[Min(hits)]

icon_for_class(window) ==
  LET classes == xprop(window, "WM_CLASS")
  IN IF ~classes.none /\ Len(classes.vals) > 0
       THEN LET icons == [j \in 1..Len(classes.vals) |->
                           icon_of_class_value(lower(classes.vals[j]))]
                hits == { j \in 1..Len(classes.vals) : icons[j] # None }
            IN IF hits = {} THEN None ELSE icons[Min(hits)]
       ELSE None

icon_for_window(window) ==
  LET class_icon == icon_for_class(window)
      name_icon == icon_for_name(window)
  IN IF CHECK_WINDOW_NAMES_FIRST /\ name_icon # None THEN name_icon
     ELSE IF class_icon # None THEN class_icon
     ELSE DEFAULT_ICON

-----------------------------------------------------------------------------
(* util: the name codec and the icon-list formatter.  util.py is not among  *)
(* the sources; its functions are modelled after their specification.      *)

\* NameParts.num when the name carries no number.
NoNum == -1

WordChars == Range(LowerChars) \cup UpperSet

NameParts(num, shortname, icons) ==
  [num |-> num, shortname |-> shortname, icons |-> icons]

RECURSIVE run_length(_, _, _)
run_length(s, from, set) ==
  IF from <= Len(s) /\ s[from] \in set
    THEN 1 + run_length(s, from + 1, set)
    ELSE 0

\* "<num>:<shortname> <icons>", each part optional; anything else, also a number
\* that is not written as str() writes it, is taken whole as the shortname.
parse_workspace_name(name) ==
  LET d == run_length(name, 1, DigitSet)
      c == IF /\ d > 0
              /\ d + 2 <= Len(name)
              /\ name[d + 1] = ":"
              /\ (name[d + 2] \in WordChars \/ name[d + 2] = " ")
             THEN 1 ELSE 0
      w == run_length(name, d + c + 1, WordChars)
      p == d + c + w
      rest == SubSeq(name, p + 1, Len(name))
      structured ==
        /\ rest = <<>> \/ (Len(rest) > 1 /\ rest[1] = " ")
        /\ (d > 0 /\ w > 0) => c = 1
        /\ d > 0 => str(int(SubSeq(name, 1, d))) = SubSeq(name, 1, d)
  IN IF structured
       THEN NameParts(IF d > 0 THEN int(SubSeq(name, 1, d)) ELSE NoNum,
                      SubSeq(name, d + c + 1, p),
                      IF rest = <<>> THEN <<>> ELSE Tail(rest))
       ELSE NameParts(NoNum, name, <<>>)

construct_workspace_name(parts) ==
  LET numbered == parts.num # NoNum
  IN (IF numbered THEN str(parts.num) ELSE <<>>)
     \o (IF numbered /\ (parts.shortname # <<>> \/ parts.icons # <<>>)
           THEN <<":">> ELSE <<>>)
     \o parts.shortname
     \o (IF parts.icons # <<>> THEN <<" ">> \o parts.icons ELSE <<>>)

FormatModes == {"default", "mathematician", "chemist"}

\* Lines 270-271, "factorize [...] (e.g. aababa -> a4b2)" with the 4 and the 2
\* raised or lowered: every icon once, in the order of its first occurrence, with
\* the number of its occurrences anywhere in the list: <<[icon, count], ...>>.
RECURSIVE factors(_)
factors(icons) ==
  IF icons = <<>> THEN <<>>
  ELSE LET rest == SelectSeq(Tail(icons), LAMBDA y : y # icons[1])
       IN <<[icon |-> icons[1], count |-> Len(icons) - Len(rest)]>> \o factors(rest)

script_digits(k, mark) ==
  LET ds == str(k) IN [i \in 1..Len(ds) |-> mark \o ds[i]]

RECURSIVE render_runs(_, _)
render_runs(rs, mark) ==
  IF rs = <<>> THEN <<>>
  ELSE (IF rs[1].count > 1
          THEN <<rs[1].icon>> \o script_digits(rs[1].count, mark)
          ELSE <<rs[1].icon>>)
       \o render_runs(Tail(rs), mark)

\* An unrecognized mode raises InvalidFormatMode.
format_raises(mode) == mode \notin FormatModes

format_icon_list(icon_list, mode) ==
  CASE mode = "default" -> icon_list
    [] mode = "mathematician" -> render_runs(factors(icon_list), "^")
    [] mode = "chemist" -> render_runs(factors(icon_list), "_")

HasIcons(name) == parse_workspace_name(name).icons # <<>>

-----------------------------------------------------------------------------
(* The window manager: workspaces in tree order, grouped by output *)

OutputOrder == <<"A", "B", "C", "D">>

Outputs == Range(OutputOrder)

output_index(o) == CHOOSE i \in 1..Len(OutputOrder) : OutputOrder[i] = o

Workspace(name, output, leaves) ==
  [name |-> name, output |-> output, leaves |-> leaves]

Event(type, change) == [type |-> type, change |-> change]

\* i3 refuses a rename when no workspace has the old name or when another
\* workspace already has the new one.
i3_accepts(old, new) ==
  /\ \E k \in 1..Len(ws) : ws[k].name = old
  /\ ~\E k \in 1..Len(ws) : ws[k].name = new

i3_renamed(old, new) ==
  [k \in 1..Len(ws) |->
     IF ws[k].name = old THEN [ws[k] EXCEPT !.name = new] ELSE ws[k]]

\* i3.command('rename workspace "old" to "new"'), when the call returns.
i3_command(old, new, by) ==
  /\ ws' = IF i3_accepts(old, new) THEN i3_renamed(old, new) ELSE ws
  /\ cmds' = Append(cmds, [old |-> old, new |-> new, by |-> by,
                          taken |-> \E k \in 1..Len(ws) : ws[k].name = new,
                          ok |-> i3_accepts(old, new)])
  /\ dirty' = (dirty \/ ~i3_accepts(old, new))

-----------------------------------------------------------------------------
(* rename_workspaces *)

\* Line 211.
leaf_icons(workspace) ==
  [j \in 1..Len(workspace.leaves) |-> icon_for_window(workspace.leaves[j])]

\* Line 213 gone wrong: the first icon, whether or not it is the default glyph.
first_icon(icon_list) ==
  IF icon_list = <<>> THEN <<DEFAULT_ICON>> ELSE <<icon_list[1]>>

\* Line 213: next((icon for icon in icon_list if icon != DEFAULT_ICON), DEFAULT_ICON).
first_non_default(icon_list) ==
  LET hits == { j \in 1..Len(icon_list) : icon_list[j] # DEFAULT_ICON }
  IN IF hits = {} THEN <<DEFAULT_ICON>> ELSE <<icon_list[Min(hits)]>>

\* Lines 211-213.
workspace_icon_list(workspace) ==
  IF SINGLE_ICON_ONLY
    THEN first_non_default(leaf_icons(workspace))
    ELSE leaf_icons(workspace)

\* Lines 218-219 gone wrong: no gap between monitors.
gap_never(nn, prev, output) == nn

\* Lines 218-219: the counter after the gap between monitors.
gap(nn, prev, output) ==
  IF output # prev /\ prev # None THEN nn + 1 ELSE nn

\* Line 223 gone wrong: the flag is ignored.
new_number_always(nn, name_parts) == nn

\* Line 223.
new_number(nn, name_parts) ==
  IF RENUMBER_WORKSPACES THEN nn ELSE name_parts.num

\* Lines 216-223: the number given to the workspace at position idx + 1.
workspace_new_number(workspace, ws_info) ==
  new_number(gap(n, prev_output, ws_info.output), parse_workspace_name(workspace.name))

\* Lines 229-230 gone wrong: the comparison is lost and every workspace is renamed.
needs_rename_always(name, new_name) == TRUE

\* Lines 229-230, 243-244: a command is issued unless the name is unchanged.
needs_rename(name, new_name) == name # new_name

\* Line 214 gone wrong: the error is caught and the default mode is used instead.
formatted_or_default(icon_list, mode) ==
  [raised |-> FALSE,
   icons |-> format_icon_list(icon_list, IF format_raises(mode) THEN "default" ELSE mode)]

\* Line 214 gone wrong: the mode is not handed on, and the formatter's own
\* default applies.
formatted_in_default_mode(icon_list, mode) ==
  IF format_raises(mode)
    THEN [raised |-> TRUE, icons |-> <<>>]
    ELSE [raised |-> FALSE, icons |-> format_icon_list(icon_list, "default")]

\* Line 214: new_icons, or the error of format_icon_list, which rename_workspaces
\* does not catch.
formatted(icon_list, mode) ==
  IF format_raises(mode)
    THEN [raised |-> TRUE, icons |-> <<>>]
    ELSE [raised |-> FALSE, icons |-> format_icon_list(icon_list, mode)]

\* Lines 226-228 gone wrong: the icons parsed from the old name are kept in front
\* of the new ones.
new_workspace_name_keeping_icons(workspace, ws_info, new_icons) ==
  LET name_parts == parse_workspace_name(workspace.name)
      new_num == workspace_new_number(workspace, ws_info)
  IN construct_workspace_name(
       NameParts(new_num, name_parts.shortname, name_parts.icons \o new_icons))

\* Lines 210, 216-228: the new name of the workspace at position idx + 1, given
\* new_icons of line 214.
new_workspace_name(workspace, ws_info, new_icons) ==
  LET name_parts == parse_workspace_name(workspace.name)
      new_num == workspace_new_number(workspace, ws_info)
  IN construct_workspace_name(NameParts(new_num, name_parts.shortname, new_icons))

\* Line 279 gone wrong: the call is missing, and the tables stay as written.
BootWithoutLowercase ==
  /\ pc = "boot"
  /\ pc' = "start"
  /\ UNCHANGED << lowercased, RENUMBER_WORKSPACES, SINGLE_ICON_ONLY,
                  CHECK_WINDOW_NAMES_FIRST, REQUIRE_EXACT_NAME_MATCH, icon_list_format,
                  ws, queue, ws_infos, tree, idx, n, prev_output, cmds, icon_lists,
                  formatted_icons, computed, new_nums, npass, delivered, dirty,
                  prev_clean, budget, win, class_icon_out,
                  name_icon_out, icon_out >>

\* Lines 273-285: the flags are parsed, ensure_window_icons_lowercase() runs, the
\* connection is opened and the signal handlers are installed.
Boot ==
  /\ pc = "boot"
  /\ lowercased' = lowercased + 1
  /\ pc' = "start"
  /\ UNCHANGED << RENUMBER_WORKSPACES, SINGLE_ICON_ONLY,
                  CHECK_WINDOW_NAMES_FIRST, REQUIRE_EXACT_NAME_MATCH, icon_list_format,
                  ws, queue, ws_infos, tree, idx, n, prev_output, cmds, icon_lists,
                  formatted_icons, computed, new_nums, npass, delivered, dirty,
                  prev_clean, budget, win, class_icon_out,
                  name_icon_out, icon_out >>

\* Lines 204-206: the first query, i3.get_workspaces(), and the locals.
BeginPass ==
  /\ ws_infos' = [k \in 1..Len(ws) |-> [name |-> ws[k].name, output |-> ws[k].output]]
  /\ tree' = <<>>
  /\ idx' = 0
  /\ n' = 1
  /\ prev_output' = None
  /\ cmds' = <<>>
  /\ icon_lists' = <<>>
  /\ formatted_icons' = <<>>
  /\ computed' = <<>>
  /\ new_nums' = <<>>
  /\ npass' = npass + 1
  /\ dirty' = FALSE
  /\ pc' = "queried"

\* Line 287: the pass at startup.
Startup ==
  /\ pc = "start"
  /\ BeginPass
  /\ UNCHANGED << lowercased, RENUMBER_WORKSPACES, SINGLE_ICON_ONLY, CHECK_WINDOW_NAMES_FIRST,
                  REQUIRE_EXACT_NAME_MATCH, icon_list_format, ws, queue, delivered,
                  prev_clean, budget, win, class_icon_out,
                  name_icon_out, icon_out >>

\* Line 207: the second query, i3.get_tree().workspaces().
GetTree ==
  /\ pc = "queried"
  /\ tree' = ws
  /\ pc' = "pass"
  /\ UNCHANGED << lowercased, RENUMBER_WORKSPACES, SINGLE_ICON_ONLY,
                  CHECK_WINDOW_NAMES_FIRST, REQUIRE_EXACT_NAME_MATCH, icon_list_format,
                  ws, queue, ws_infos, idx, n, prev_output, cmds, icon_lists,
                  formatted_icons, computed, new_nums, npass, delivered, dirty,
                  prev_clean, budget, win, class_icon_out, name_icon_out, icon_out >>

\* Line 208: ws_infos[ws_index] raises IndexError when the tree holds more
\* workspaces than the first query returned; nothing catches it.
IndexRaises ==
  /\ pc = "pass"
  /\ idx < Len(tree)
  /\ idx >= Len(ws_infos)
  /\ pc' = "crashed"
  /\ UNCHANGED << lowercased, RENUMBER_WORKSPACES, SINGLE_ICON_ONLY,
                  CHECK_WINDOW_NAMES_FIRST, REQUIRE_EXACT_NAME_MATCH, icon_list_format,
                  ws, queue, ws_infos, tree, idx, n, prev_output, cmds, icon_lists,
                  formatted_icons, computed, new_nums, npass, delivered, dirty,
                  prev_clean, budget, win, class_icon_out, name_icon_out, icon_out >>

\* Lines 208-232: one iteration of the loop.
PassStep ==
  /\ pc = "pass"
  /\ idx < Len(tree)
  /\ idx < Len(ws_infos)
  /\ LET workspace == tree[idx + 1]
         ws_info == ws_infos[idx + 1]
         icon_list == workspace_icon_list(workspace)
         new_icons == formatted(icon_list, icon_list_format)
         new_name == new_workspace_name(workspace, ws_info, new_icons.icons)
     IN /\ ~new_icons.raised
        /\ icon_lists' = Append(icon_lists, icon_list)
        /\ formatted_icons' = Append(formatted_icons, new_icons.icons)
        /\ computed' = Append(computed, new_name)
        /\ new_nums' = Append(new_nums, workspace_new_number(workspace, ws_info))
        /\ n' = gap(n, prev_output, ws_info.output) + 1
        /\ prev_output' = ws_info.output
        /\ idx' = idx + 1
        /\ IF needs_rename(workspace.name, new_name)
             THEN i3_command(workspace.name, new_name, "rename_workspaces")
             ELSE UNCHANGED << ws, cmds, dirty >>
  /\ UNCHANGED << lowercased, RENUMBER_WORKSPACES, SINGLE_ICON_ONLY, CHECK_WINDOW_NAMES_FIRST,
                  REQUIRE_EXACT_NAME_MATCH, icon_list_format, queue, pc, ws_infos,
                  tree, npass, delivered, prev_clean, budget, win, class_icon_out,
                  name_icon_out, icon_out >>

\* Line 214: format_icon_list raises InvalidFormatMode; nothing catches it.
FormatRaises ==
  /\ pc = "pass"
  /\ idx < Len(tree)
  /\ idx < Len(ws_infos)
  /\ formatted(workspace_icon_list(tree[idx + 1]), icon_list_format).raised
  /\ pc' = "crashed"
  /\ UNCHANGED << lowercased, RENUMBER_WORKSPACES, SINGLE_ICON_ONLY, CHECK_WINDOW_NAMES_FIRST,
                  REQUIRE_EXACT_NAME_MATCH, icon_list_format, ws, queue, ws_infos,
                  tree, idx, n, prev_output, cmds, icon_lists, formatted_icons, computed, new_nums,
                  npass,
                  delivered, dirty, prev_clean, budget, win, class_icon_out,
                  name_icon_out, icon_out >>

\* Lines 231-232: i3.command raises (the IPC connection fails); nothing catches it.
PassCommandRaises ==
  /\ pc = "pass"
  /\ idx < Len(tree)
  /\ idx < Len(ws_infos)
  /\ LET workspace == tree[idx + 1]
         new_icons == formatted(workspace_icon_list(workspace), icon_list_format)
     IN /\ ~new_icons.raised
        /\ needs_rename(workspace.name,
                        new_workspace_name(workspace, ws_infos[idx + 1], new_icons.icons))
  /\ pc' = "crashed"
  /\ UNCHANGED << lowercased, RENUMBER_WORKSPACES, SINGLE_ICON_ONLY, CHECK_WINDOW_NAMES_FIRST,
                  REQUIRE_EXACT_NAME_MATCH, icon_list_format, ws, queue, ws_infos,
                  tree, idx, n, prev_output, cmds, icon_lists, formatted_icons, computed, new_nums,
                  npass,
                  delivered, dirty, prev_clean, budget, win, class_icon_out,
                  name_icon_out, icon_out >>

\* The loop ends and rename_workspaces returns to the main loop.
PassReturn ==
  /\ pc = "pass"
  /\ idx = Len(tree)
  /\ pc' = "idle"
  /\ prev_clean' = IF dirty THEN 0 ELSE 1 + Len(cmds)
  /\ UNCHANGED << lowercased, RENUMBER_WORKSPACES, SINGLE_ICON_ONLY, CHECK_WINDOW_NAMES_FIRST,
                  REQUIRE_EXACT_NAME_MATCH, icon_list_format, ws, queue, ws_infos,
                  tree, idx, n, prev_output, cmds, icon_lists, formatted_icons, computed, new_nums,
                  npass,
                  delivered, dirty, budget, win, class_icon_out,
                  name_icon_out, icon_out >>

\* Line 291 gone wrong: every event starts a pass.
handles_any(e) == TRUE

\* Line 291.
handles(e) == e.change \in {"new", "close", "move"}

\* Lines 290-296: the main loop hands the next event to event_handler.
Deliver ==
  /\ pc = "idle"
  /\ queue # <<>>
  /\ queue' = Tail(queue)
  /\ delivered' = Append(delivered, Head(queue))
  /\ IF handles(Head(queue))
       THEN BeginPass
       ELSE UNCHANGED << pc, ws_infos, tree, idx, n, prev_output, cmds, icon_lists, formatted_icons,
                         computed, new_nums, npass, dirty >>
  /\ UNCHANGED << lowercased, RENUMBER_WORKSPACES, SINGLE_ICON_ONLY, CHECK_WINDOW_NAMES_FIRST,
                  REQUIRE_EXACT_NAME_MATCH, icon_list_format, ws, prev_clean,
                  budget, win, class_icon_out,
                  name_icon_out, icon_out >>

-----------------------------------------------------------------------------
(* on_exit *)

\* Lines 238-242 gone wrong: the workspace is renumbered by its position.
exit_name_renumbered(name) ==
  LET name_parts == parse_workspace_name(name)
  IN construct_workspace_name(NameParts(idx + 1, name_parts.shortname, <<>>))

\* Lines 238-242 gone wrong: the shortname is not handed on.
exit_name_without_shortname(name) ==
  LET name_parts == parse_workspace_name(name)
  IN construct_workspace_name(NameParts(name_parts.num, <<>>, <<>>))

\* Lines 238-242.
exit_name(name) ==
  LET name_parts == parse_workspace_name(name)
  IN construct_workspace_name(NameParts(name_parts.num, name_parts.shortname, <<>>))

\* Lines 284-285, 237: SIGINT or SIGTERM; the handler runs on_exit at once,
\* whatever the main thread was doing.
Signal ==
  /\ pc \in {"start", "queried", "pass", "idle"}
  /\ pc' = "exit"
  /\ tree' = ws
  /\ idx' = 0
  /\ cmds' = <<>>
  /\ icon_lists' = <<>>
  /\ formatted_icons' = <<>>
  /\ computed' = <<>>
  /\ new_nums' = <<>>
  /\ UNCHANGED << lowercased, RENUMBER_WORKSPACES, SINGLE_ICON_ONLY, CHECK_WINDOW_NAMES_FIRST,
                  REQUIRE_EXACT_NAME_MATCH, icon_list_format, ws, queue, ws_infos, n,
                  prev_output, npass, delivered, dirty, prev_clean, budget,
                  win, class_icon_out,
                  name_icon_out, icon_out >>

\* Lines 237-246: one iteration of the loop.
ExitStep ==
  /\ pc = "exit"
  /\ idx < Len(tree)
  /\ LET workspace == tree[idx + 1]
         new_name == exit_name(workspace.name)
     IN /\ computed' = Append(computed, new_name)
        /\ idx' = idx + 1
        /\ IF needs_rename(workspace.name, new_name)
             THEN i3_command(workspace.name, new_name, "on_exit")
             ELSE UNCHANGED << ws, cmds, dirty >>
  /\ UNCHANGED << lowercased, RENUMBER_WORKSPACES, SINGLE_ICON_ONLY, CHECK_WINDOW_NAMES_FIRST,
                  REQUIRE_EXACT_NAME_MATCH, icon_list_format, queue, pc, ws_infos,
                  tree, n, prev_output, icon_lists, formatted_icons, new_nums, npass, delivered,
                  prev_clean,
                  budget, win, class_icon_out,
                  name_icon_out, icon_out >>

\* Lines 245-246: i3.command raises inside on_exit; on_exit catches nothing, so
\* the loop is abandoned and lines 247-248 are never run.
ExitCommandRaises ==
  /\ pc = "exit"
  /\ idx < Len(tree)
  /\ needs_rename(tree[idx + 1].name, exit_name(tree[idx + 1].name))
  /\ pc' = "exit_raised"
  /\ UNCHANGED << lowercased, RENUMBER_WORKSPACES, SINGLE_ICON_ONLY, CHECK_WINDOW_NAMES_FIRST,
                  REQUIRE_EXACT_NAME_MATCH, icon_list_format, ws, queue, ws_infos,
                  tree, idx, n, prev_output, cmds, icon_lists, formatted_icons, computed, new_nums,
                  npass,
                  delivered, dirty, prev_clean, budget, win, class_icon_out,
                  name_icon_out, icon_out >>

\* Lines 247-248: i3.main_quit(); sys.exit(0).
ExitQuit ==
  /\ pc = "exit"
  /\ idx = Len(tree)
  /\ pc' = "exited"
  /\ UNCHANGED << lowercased, RENUMBER_WORKSPACES, SINGLE_ICON_ONLY, CHECK_WINDOW_NAMES_FIRST,
                  REQUIRE_EXACT_NAME_MATCH, icon_list_format, ws, queue, ws_infos,
                  tree, idx, n, prev_output, cmds, icon_lists, formatted_icons, computed, new_nums,
                  npass,
                  delivered, dirty, prev_clean, budget, win, class_icon_out,
                  name_icon_out, icon_out >>

-----------------------------------------------------------------------------
(* Windows, as xprop reports them *)

NoValues == [none |-> TRUE, vals |-> <<>>]

Values(vals) == [none |-> FALSE, vals |-> vals]

Window(classes, names) == [wm_class |-> classes, wm_name |-> names]

\* WM_CLASS "Navigator", "Firefox"; title "Mozilla": the class matches only.
Firefox ==
  Window(Values(<< <<"N","a","v","i","g","a","t","o","r">>,
                   <<"F","i","r","e","f","o","x">> >>),
         Values(<< <<"M","o","z","i","l","l","a">> >>))

\* WM_CLASS "urxvt", "URxvt"; title "Vim notes": class and name both match.
VimInUrxvt ==
  Window(Values(<< <<"u","r","x","v","t">>, <<"U","R","x","v","t">> >>),
         Values(<< <<"V","i","m"," ","n","o","t","e","s">> >>))

\* WM_CLASS "xterm", "XTerm"; title "htop": the name matches only.
HtopInXterm ==
  Window(Values(<< <<"x","t","e","r","m">>, <<"X","T","e","r","m">> >>),
         Values(<< <<"h","t","o","p">> >>))

\* Nothing matches.
Unknown ==
  Window(Values(<< <<"x","t","e","r","m">> >>),
         Values(<< <<"n","o","t","e","s">> >>))

ClassValues ==
  { NoValues,
    Values(<<>>),
    Firefox.wm_class,
    VimInUrxvt.wm_class,
    HtopInXterm.wm_class }

NameValues ==
  { NoValues,
    Values(<<>>),
    Firefox.wm_name,
    VimInUrxvt.wm_name,
    HtopInXterm.wm_name,
    Values(<< <<"n","o","t","e","s">>, <<"S","S","H">> >>),
    Values(<< <<"S","s","h"," ","b","o","x">>, <<"h","t","o","p">> >>),
    Values(<< <<"v","i","f","m">> >>) }

\* One window per key of WINDOW_NAMES, with that key as its only name.
KeyWindows ==
  { Window(NoValues, Values(<< WINDOW_NAMES[i].key >>)) : i \in 1..Len(WINDOW_NAMES) }

Windows == { Window(c, m) : c \in ClassValues, m \in NameValues } \cup KeyWindows

LeafWindows == { Firefox, VimInUrxvt, HtopInXterm, Unknown }

\* The windows opened, and the monitors connected, while the program runs.
NewWindows == { Firefox }

RunOutputs == { "A", "B" }

\* The names of the workspaces created while the program runs.
NewNames == { <<"9">> }

-----------------------------------------------------------------------------
(* Bounds *)

MaxWs == 3        \* workspaces in a pass
MaxLeaves == 2    \* windows on a workspace
MaxChanges == 2   \* window-manager changes in a run
MaxName == 3      \* characters of a workspace name, where every name is tried
MaxIcons == 4     \* windows on the workspace, where every list of icons is tried

-----------------------------------------------------------------------------
(* The window manager's own steps: each changes the tree and emits an event *)

EnvLive == pc \in {"start", "queried", "pass", "idle"} /\ budget > 0

Changed(e) ==
  /\ queue' = Append(queue, e)
  /\ dirty' = TRUE
  /\ prev_clean' = 0
  /\ budget' = budget - 1
  /\ UNCHANGED << lowercased, RENUMBER_WORKSPACES, SINGLE_ICON_ONLY, CHECK_WINDOW_NAMES_FIRST,
                  REQUIRE_EXACT_NAME_MATCH, icon_list_format, pc, ws_infos, tree,
                  idx, n, prev_output, cmds, icon_lists, formatted_icons, computed, new_nums,
                  npass, delivered,
                  win, class_icon_out,
                  name_icon_out, icon_out >>

without(s, j) == SubSeq(s, 1, j - 1) \o SubSeq(s, j + 1, Len(s))

WindowNew ==
  /\ EnvLive
  /\ \E k \in 1..Len(ws), w \in NewWindows :
       /\ Len(ws[k].leaves) < MaxLeaves
       /\ ws' = [ws EXCEPT ![k].leaves = Append(@, w)]
  /\ Changed(Event("window", "new"))

WindowClose ==
  /\ EnvLive
  /\ \E k \in 1..Len(ws) : \E j \in 1..Len(ws[k].leaves) :
       ws' = [ws EXCEPT ![k].leaves = without(@, j)]
  /\ Changed(Event("window", "close"))

WindowMove ==
  /\ EnvLive
  /\ \E k \in 1..Len(ws), k2 \in 1..Len(ws) : \E j \in 1..Len(ws[k].leaves) :
       /\ k # k2
       /\ Len(ws[k2].leaves) < MaxLeaves
       /\ ws' = [ws EXCEPT ![k].leaves = without(@, j),
                           ![k2].leaves = Append(@, ws[k].leaves[j])]
  /\ Changed(Event("window", "move"))

\* The workspace joins the workspaces of its new output.
moved_to_output(k, o) ==
  LET others == without(ws, k)
      before == Cardinality({ i \in 1..Len(others) :
                               output_index(others[i].output) <= output_index(o) })
  IN SubSeq(others, 1, before) \o << [ws[k] EXCEPT !.output = o] >>
     \o SubSeq(others, before + 1, Len(others))

WorkspaceMove ==
  /\ EnvLive
  /\ \E k \in 1..Len(ws), o \in RunOutputs :
       /\ o # ws[k].output
       /\ ws' = moved_to_output(k, o)
  /\ Changed(Event("workspace", "move"))

\* A change of the workspaces that reaches no handler: i3 reports it as
\* workspace::init or workspace::empty, and line 295 asks for workspace::move.
ChangedSilently ==
  /\ dirty' = TRUE
  /\ prev_clean' = 0
  /\ budget' = budget - 1
  /\ UNCHANGED << lowercased, RENUMBER_WORKSPACES, SINGLE_ICON_ONLY,
                  CHECK_WINDOW_NAMES_FIRST, REQUIRE_EXACT_NAME_MATCH, icon_list_format,
                  queue, pc, ws_infos, tree, idx, n, prev_output, cmds, icon_lists,
                  formatted_icons, computed, new_nums, npass, delivered, win,
                  class_icon_out, name_icon_out, icon_out >>

\* The user switches to a workspace that does not exist: i3 creates it, empty,
\* behind the workspaces of its output.
WorkspaceNew ==
  /\ EnvLive
  /\ Len(ws) < MaxWs
  /\ \E name \in NewNames, o \in RunOutputs :
       /\ \A k \in 1..Len(ws) : ws[k].name # name
       /\ LET before == Cardinality({ i \in 1..Len(ws) :
                                       output_index(ws[i].output) <= output_index(o) })
          IN ws' = SubSeq(ws, 1, before) \o << Workspace(name, o, <<>>) >>
                   \o SubSeq(ws, before + 1, Len(ws))
  /\ ChangedSilently

\* The user leaves an empty workspace: i3 removes it.
WorkspaceEmpty ==
  /\ EnvLive
  /\ Len(ws) > 1
  /\ \E k \in 1..Len(ws) :
       /\ ws[k].leaves = <<>>
       /\ ws' = without(ws, k)
  /\ ChangedSilently

\* A window event that changes no workspace: focus, title.
WindowOther ==
  /\ EnvLive
  /\ \E change \in {"focus", "title"} : queue' = Append(queue, Event("window", change))
  /\ budget' = budget - 1
  /\ UNCHANGED << lowercased, RENUMBER_WORKSPACES, SINGLE_ICON_ONLY, CHECK_WINDOW_NAMES_FIRST,
                  REQUIRE_EXACT_NAME_MATCH, icon_list_format, ws, pc, ws_infos, tree,
                  idx, n, prev_output, cmds, icon_lists, formatted_icons, computed, new_nums,
                  npass, delivered,
                  dirty, prev_clean, win, class_icon_out,
                  name_icon_out, icon_out >>

-----------------------------------------------------------------------------
(* Icon resolution alone *)

Resolve ==
  /\ pc = "resolve"
  /\ class_icon_out' = icon_for_class(win)
  /\ name_icon_out' = icon_for_name(win)
  /\ icon_out' = icon_for_window(win)
  /\ pc' = "resolved"
  /\ UNCHANGED << lowercased, RENUMBER_WORKSPACES, SINGLE_ICON_ONLY, CHECK_WINDOW_NAMES_FIRST,
                  REQUIRE_EXACT_NAME_MATCH, icon_list_format, ws, queue, ws_infos,
                  tree, idx, n, prev_output, cmds, icon_lists, formatted_icons, computed, new_nums,
                  npass,
                  delivered, dirty, prev_clean, budget, win >>

-----------------------------------------------------------------------------
(* Initial states *)

\* Workspace names as found at startup.
PlainNames ==
  { <<"1">>,
    <<"2", ":", "w", "e", "b">>,
    <<"w", "e", "b">>,
    <<"1", "0">> }

AnnotatedNames ==
  { <<"5", ":", "c", "o", "d", "e", " ", "firefox">>,
    <<"3", ":", " ", "firefox", "*">> }

\* The names a pass starts from: the names without annotation, and one left
\* annotated by an earlier run.
PassNames == PlainNames \cup { <<"5", ":", "c", "o", "d", "e", " ", "firefox">> }

\* The outputs of m workspaces: the first is on "A", and each next workspace is on
\* the same output as the one before it or on the next output.
OutputSeqs(m) ==
  { [k \in 1..m |-> OutputOrder[1 + Cardinality({ j \in 1..(k - 1) : b[j] })]] :
      b \in [1..(m - 1) -> BOOLEAN] }

Injective(s) == \A i, j \in 1..Len(s) : i # j => s[i] # s[j]

\* ws is some arrangement of 1..max workspaces with distinct names.
Arranged(names, leaf_lists, max) ==
  \E m \in 1..max :
    \E ns \in { s \in [1..m -> names] : Injective(s) },
       os \in OutputSeqs(m),
       ls \in [1..m -> leaf_lists] :
      ws = [k \in 1..m |-> Workspace(ns[k], os[k], ls[k])]

InitLocals ==
  /\ ws_infos = <<>>
  /\ tree = <<>>
  /\ idx = 0
  /\ n = 1
  /\ prev_output = None
  /\ cmds = <<>>
  /\ icon_lists = <<>>
  /\ formatted_icons = <<>>
  /\ computed = <<>>
  /\ new_nums = <<>>
  /\ npass = 0
  /\ delivered = <<>>
  /\ dirty = FALSE
  /\ prev_clean = 0

InitFlags ==
  /\ CHECK_WINDOW_NAMES_FIRST = TRUE
  /\ REQUIRE_EXACT_NAME_MATCH = FALSE
  /\ win = Unknown
  /\ class_icon_out = None
  /\ name_icon_out = None
  /\ icon_out = None

\* A workspace that already carries the icon of its window, the clean name it
\* would get at shutdown, and a workspace numbered out of order on the next monitor.
RunWorkspaces ==
  { << Workspace(<<"1", ":", "w", "e", "b", " ", "firefox">>, "A", <<Firefox>>),
       Workspace(<<"1", ":", "w", "e", "b">>, "A", <<>>) >>,
    << Workspace(<<"3", ":", "w", "e", "b">>, "A", <<Firefox>>),
       Workspace(<<"2">>, "B", <<Unknown>>) >> }

\* The program at line 273, with the window manager in any of a few small
\* states.
Init ==
  /\ InitLocals
  /\ InitFlags
  /\ lowercased = 0
  /\ RENUMBER_WORKSPACES = TRUE
  /\ SINGLE_ICON_ONLY = FALSE
  /\ icon_list_format \in {"default", "fancy"}
  /\ ws \in RunWorkspaces
  /\ queue = <<>>
  /\ pc = "boot"
  /\ budget = MaxChanges

Next ==
  \/ Boot
  \/ Startup
  \/ GetTree
  \/ IndexRaises
  \/ PassStep
  \/ FormatRaises
  \/ PassCommandRaises
  \/ PassReturn
  \/ Deliver
  \/ Signal
  \/ ExitStep
  \/ ExitCommandRaises
  \/ ExitQuit
  \/ WindowNew
  \/ WindowClose
  \/ WindowMove
  \/ WorkspaceMove
  \/ WorkspaceNew
  \/ WorkspaceEmpty
  \/ WindowOther

Spec == Init /\ [][Next]_vars

\* One pass and the pass for an event emitted before it, for every arrangement of
\* up to MaxWs workspaces; nothing else happens.
InitPass ==
  /\ InitLocals
  /\ InitFlags
  /\ lowercased = 1
  /\ RENUMBER_WORKSPACES \in BOOLEAN
  /\ SINGLE_ICON_ONLY = FALSE
  /\ icon_list_format = "default"
  /\ Arranged(PassNames, { <<>>, <<Firefox>> }, MaxWs)
  /\ queue = << Event("window", "new") >>
  /\ pc = "start"
  /\ budget = 0

NextPass ==
  \/ Startup
  \/ GetTree
  \/ PassStep
  \/ PassReturn
  \/ Deliver

SpecPass == InitPass /\ [][NextPass]_vars

\* The shutdown pass alone, from the idle main loop.
InitExit ==
  /\ InitLocals
  /\ InitFlags
  /\ lowercased = 1
  /\ RENUMBER_WORKSPACES \in BOOLEAN
  /\ SINGLE_ICON_ONLY = FALSE
  /\ icon_list_format = "default"
  /\ Arranged(PlainNames \cup AnnotatedNames, { <<>> }, MaxWs)
  /\ queue = <<>>
  /\ pc = "idle"
  /\ budget = 0

NextExit ==
  \/ Signal
  \/ ExitStep
  \/ ExitQuit

SpecExit == InitExit /\ [][NextExit]_vars

\* The shutdown pass over one workspace, for every name of up to MaxName
\* characters among digits, colon, letter, space and glyph.
NameChars == { "0", "1", ":", "w", " ", "firefox" }

AllNames == UNION { [1..m -> NameChars] : m \in 1..MaxName }

InitCodec ==
  /\ InitLocals
  /\ InitFlags
  /\ lowercased = 1
  /\ RENUMBER_WORKSPACES \in BOOLEAN
  /\ SINGLE_ICON_ONLY = FALSE
  /\ icon_list_format = "default"
  /\ Arranged(AllNames, { <<>> }, 1)
  /\ queue = <<>>
  /\ pc = "idle"
  /\ budget = 0

NextCodec ==
  \/ Signal
  \/ ExitStep
  \/ ExitQuit

SpecCodec == InitCodec /\ [][NextCodec]_vars

\* One pass over one workspace, for every list of up to MaxLeaves windows.
LeafLists == UNION { [1..m -> LeafWindows] : m \in 0..MaxLeaves }

InitLeaves ==
  /\ InitLocals
  /\ InitFlags
  /\ lowercased = 1
  /\ RENUMBER_WORKSPACES = TRUE
  /\ SINGLE_ICON_ONLY \in BOOLEAN
  /\ icon_list_format \in FormatModes
  /\ Arranged({ <<"1">> }, LeafLists, 1)
  /\ queue = <<>>
  /\ pc = "start"
  /\ budget = 0

NextLeaves ==
  \/ Startup
  \/ GetTree
  \/ PassStep
  \/ PassReturn

SpecLeaves == InitLeaves /\ [][NextLeaves]_vars

\* One pass over one workspace in the two factorizing modes, for every list of up
\* to MaxIcons windows with one of three icons.
IconWindows == { Firefox, HtopInXterm, Unknown }

IconLeafLists == UNION { [1..m -> IconWindows] : m \in 0..MaxIcons }

InitFormat ==
  /\ InitLocals
  /\ InitFlags
  /\ lowercased = 1
  /\ RENUMBER_WORKSPACES = TRUE
  /\ SINGLE_ICON_ONLY = FALSE
  /\ icon_list_format \in {"mathematician", "chemist"}
  /\ Arranged({ <<"1">> }, IconLeafLists, 1)
  /\ queue = <<>>
  /\ pc = "start"
  /\ budget = 0

NextFormat ==
  \/ Startup
  \/ GetTree
  \/ PassStep
  \/ PassReturn

SpecFormat == InitFormat /\ [][NextFormat]_vars

\* icon_for_window alone, for every window and every setting of the two flags.
InitIcon ==
  /\ InitLocals
  /\ lowercased = 1
  /\ RENUMBER_WORKSPACES = TRUE
  /\ SINGLE_ICON_ONLY = FALSE
  /\ CHECK_WINDOW_NAMES_FIRST \in BOOLEAN
  /\ REQUIRE_EXACT_NAME_MATCH \in BOOLEAN
  /\ icon_list_format = "default"
  /\ ws = <<>>
  /\ queue = <<>>
  /\ pc = "resolve"
  /\ budget = 0
  /\ win \in Windows
  /\ class_icon_out = None
  /\ name_icon_out = None
  /\ icon_out = None

NextIcon == Resolve

SpecIcon == InitIcon /\ [][NextIcon]_vars

-----------------------------------------------------------------------------
(* Properties *)

\* The number of monitor changes among the first k workspaces of the snapshot.
GroupsBefore(k) == Cardinality({ tree[j].output : j \in 1..k }) - 1

NumberOf(name) == parse_workspace_name(name).num

CommandPairs == [i \in 1..Len(cmds) |-> [old |-> cmds[i].old, new |-> cmds[i].new]]

\* C1: with renumbering enabled, the k-th workspace of a pass is given the number
\* k plus the number of monitor changes before it: 1..s_1 on the first monitor,
\* (s_1+2)..(s_1+1+s_2) on the second, and so on, one number skipped per change of
\* monitor, whatever numbers the workspaces had.
C1_RenumberGap ==
  (pc \in {"pass", "idle"} /\ RENUMBER_WORKSPACES) =>
    \A k \in 1..Len(new_nums) :
      /\ new_nums[k] = k + GroupsBefore(k)
      /\ NumberOf(computed[k]) = new_nums[k]

\* Two workspaces on one monitor, then one on the next, whose number was not 4:
\* they are numbered 1, 2, 4.
C1_Witness ==
  /\ pc = "pass"
  /\ RENUMBER_WORKSPACES
  /\ Len(computed) = 3
  /\ tree[1].output = tree[2].output
  /\ tree[2].output # tree[3].output
  /\ NumberOf(tree[1].name) = 10
  /\ NumberOf(tree[3].name) = NoNum
  /\ new_nums = <<1, 2, 4>>

RECURSIVE ExpectedCommands(_)
ExpectedCommands(k) ==
  IF k = 0 THEN <<>>
  ELSE ExpectedCommands(k - 1)
       \o (IF computed[k] # tree[k].name
             THEN << [old |-> tree[k].name, new |-> computed[k]] >>
             ELSE <<>>)

\* C3: the commands of a pass are, in workspace order, one command per workspace
\* whose computed name differs from its current name, from the current name to
\* the computed name, and none for the others.
C3_CommandIffChanged ==
  pc = "pass" => CommandPairs = ExpectedCommands(idx)

\* Three workspaces: the first keeps its name, the other two are renamed.
C3_Witness ==
  /\ pc = "pass"
  /\ idx = 3
  /\ computed[1] = tree[1].name
  /\ Len(cmds) = 2
  /\ cmds[1].old = tree[2].name
  /\ cmds[2].old = tree[3].name

\* C4: icon_for_window returns the first non-absent result in the configured
\* order, and the default glyph only when both lookups are absent.
C4_FirstNonAbsentWins ==
  pc = "resolved" =>
    LET first == IF CHECK_WINDOW_NAMES_FIRST
                   THEN icon_for_name(win) ELSE icon_for_class(win)
        second == IF CHECK_WINDOW_NAMES_FIRST
                    THEN icon_for_class(win) ELSE icon_for_name(win)
    IN icon_out = IF first # None THEN first
                  ELSE IF second # None THEN second
                  ELSE DEFAULT_ICON

\* A name with its icon annotation cut off: what stands before the first space,
\* less the colon that would end it.
BeforeAnnotation(name) ==
  LET sp == Min({ i \in 1..Len(name) : name[i] = " " } \cup {Len(name) + 1})
      head == SubSeq(name, 1, sp - 1)
  IN IF head # <<>> /\ head[Len(head)] = ":"
       THEN SubSeq(head, 1, Len(head) - 1)
       ELSE head

Annotated(name) == \E i \in 1..Len(name) : name[i] = " "

RECURSIVE ExpectedExitCommands(_)
ExpectedExitCommands(k) ==
  IF k = 0 THEN <<>>
  ELSE ExpectedExitCommands(k - 1)
       \o (IF Annotated(tree[k].name)
             THEN << [old |-> tree[k].name, new |-> BeforeAnnotation(tree[k].name)] >>
             ELSE <<>>)

\* C5: on_exit issues, in workspace order, one command per workspace whose name
\* carries an icon annotation, to that name without the annotation; the number
\* stays the parsed one whatever RENUMBER_WORKSPACES is; a workspace without an
\* annotation gets no command.
C5_ExitStripsIcons ==
  pc \in {"exit", "exited"} =>
    /\ CommandPairs = ExpectedExitCommands(idx)
    /\ \A i \in 1..Len(cmds) :
         /\ cmds[i].by = "on_exit"
         /\ NumberOf(cmds[i].new) = NumberOf(cmds[i].old)
         /\ ~HasIcons(cmds[i].new)

\* Renumbering is enabled; "5:code <firefox>" on the second monitor became
\* "5:code", and a workspace without annotation got no command.
C5_Witness ==
  /\ pc = "exited"
  /\ RENUMBER_WORKSPACES
  /\ Len(tree) = 3
  /\ Len(cmds) = 2
  /\ tree[2].output # tree[1].output
  /\ tree[2].name = <<"5", ":", "c", "o", "d", "e", " ", "firefox">>
  /\ ws[2].name = <<"5", ":", "c", "o", "d", "e">>
  /\ ws[3].name = <<"3">>
  /\ ~Annotated(tree[1].name)

\* C6: once the process has ended after a termination signal, every command of
\* the last pass was on_exit's and no workspace name carries an icon annotation.
C6_ExitLeavesNoIcons ==
  pc \in {"exited", "exit_raised"} =>
    /\ \A i \in 1..Len(cmds) : cmds[i].by = "on_exit"
    /\ \A k \in 1..Len(ws) : ~HasIcons(ws[k].name)

\* C7: on_exit never raises: whatever happens to a rename command, the loop goes
\* on and the process ends at sys.exit(0) with every workspace processed.
C7_ExitNeverRaises ==
  /\ pc # "exit_raised"
  /\ pc = "exited" => idx = Len(tree)

Relevant(e) == e.change \in {"new", "close", "move"}

\* C8: one pass at startup, then one pass per delivered event whose change is
\* new, close or move, and none for any other event; a pass starts from the
\* counter 1, no previous output, no command, and the current tree.
C8_OnePassPerEvent ==
  /\ pc = "start" => npass = 0
  /\ pc \in {"queried", "pass", "idle"} =>
       npass = 1 + Cardinality({ i \in 1..Len(delivered) : Relevant(delivered[i]) })
  /\ (pc = "pass" /\ idx = 0) =>
       /\ n = 1
       /\ prev_output = None
       /\ cmds = <<>>
       /\ ~dirty => tree = ws

\* A focus or title event and a new, close or move event were delivered: two
\* passes in all.
C8_Witness ==
  /\ pc = "idle"
  /\ Len(delivered) = 2
  /\ \E i \in 1..2 : ~Relevant(delivered[i])
  /\ \E i \in 1..2 : Relevant(delivered[i])
  /\ npass = 2

\* C9: with renumbering disabled, the number given to every workspace, and found
\* in its computed name, is the number parsed from the current name, and a name
\* without number stays without.
C9_NumberKept ==
  (pc \in {"pass", "idle"} /\ ~RENUMBER_WORKSPACES) =>
    \A k \in 1..Len(new_nums) :
      /\ new_nums[k] = NumberOf(tree[k].name)
      /\ NumberOf(computed[k]) = NumberOf(tree[k].name)

\* Three workspaces on more than one monitor, one without a number and one whose
\* number is not the one renumbering would give; a command was issued.
C9_Witness ==
  /\ pc = "pass"
  /\ ~RENUMBER_WORKSPACES
  /\ Len(computed) = 3
  /\ tree[1].output # tree[3].output
  /\ \E k \in 1..3 : NumberOf(tree[k].name) = NoNum
  /\ \E k \in 1..3 : /\ NumberOf(tree[k].name) # NoNum
                     /\ NumberOf(tree[k].name) # k + GroupsBefore(k)
  /\ cmds # <<>>

\* C10: in single-icon mode the list handed to the formatter holds exactly one
\* icon: the first icon in leaf order that is not the default glyph, or the
\* default glyph when there is none (also for a workspace without windows).
C10_SingleIcon ==
  (pc \in {"pass", "idle"} /\ SINGLE_ICON_ONLY) =>
    \A k \in 1..Len(icon_lists) :
      LET all == leaf_icons(tree[k])
          others == { j \in 1..Len(all) : all[j] # DEFAULT_ICON }
      IN /\ Len(icon_lists[k]) = 1
         /\ others = {} => icon_lists[k][1] = DEFAULT_ICON
         /\ others # {} => icon_lists[k][1] = all[Min(others)]

\* A window without icon before a Firefox window: the one icon is Firefox's.
C10_Witness ==
  /\ pc = "idle"
  /\ SINGLE_ICON_ONLY
  /\ Len(icon_lists) = 1
  /\ leaf_icons(tree[1]) = <<DEFAULT_ICON, "firefox">>
  /\ icon_lists[1] = <<"firefox">>

\* The glyphs of the two tables.
TableIcons ==
  { WINDOW_ICONS[i].icon : i \in 1..Len(WINDOW_ICONS) }
    \cup { WINDOW_NAMES[i].icon : i \in 1..Len(WINDOW_NAMES) }

\* Some value of the list, lower-cased, is a key of the by-class table.
ClassMatches(values) ==
  \E j \in 1..Len(values.vals) : \E i \in 1..Len(LoweredIcons) :
    LoweredIcons[i].key = lower(values.vals[j])

\* Some value of the list, lower-cased, is a key of the by-name table (exact mode)
\* or starts with one (prefix mode).
NameMatches(values) ==
  \E j \in 1..Len(values.vals) : \E i \in 1..Len(LoweredNames) :
    IF REQUIRE_EXACT_NAME_MATCH
      THEN LoweredNames[i].key = lower(values.vals[j])
      ELSE startswith(lower(values.vals[j]), LoweredNames[i].key)

\* C11: for every window, also one whose class list or name list is None, empty
\* or without any matching value, icon_for_window returns a glyph (of a table, or
\* the default one) and no error; it returns the default glyph when no class
\* value and no name value matches.
C11_ResolutionTotal ==
  pc = "resolved" =>
    /\ icon_out \in TableIcons \cup {DEFAULT_ICON}
    /\ (~ClassMatches(win.wm_class) /\ ~NameMatches(win.wm_name)) =>
         icon_out = DEFAULT_ICON

\* WM_CLASS is None and WM_NAME is the empty list: the default glyph.
C11_Witness ==
  /\ pc = "resolved"
  /\ win.wm_class.none
  /\ ~win.wm_name.none
  /\ win.wm_name.vals = <<>>
  /\ icon_out = DEFAULT_ICON

\* C12: with a format mode other than default, mathematician and chemist, the
\* first call of the formatter raises and the error leaves the pass: the pass
\* never returns to the main loop, no second pass starts, and the pass has issued
\* no command and computed no name, under that mode or any other.
C12_InvalidModePropagates ==
  icon_list_format \notin {"default", "mathematician", "chemist"} =>
    /\ pc # "idle"
    /\ npass <= 1
    /\ pc \in {"pass", "crashed"} => (idx = 0 /\ cmds = <<>> /\ computed = <<>>)
    /\ \A i \in 1..Len(cmds) : cmds[i].by # "rename_workspaces"

\* The pass at startup has ended with the error, with every workspace named as
\* before, among them one whose name the pass would have changed.
C12_Witness ==
  /\ pc = "crashed"
  /\ icon_list_format = "fancy"
  /\ npass = 1
  /\ ws = tree
  /\ ws[1].name = <<"3", ":", "w", "e", "b">>

\* C13: for every name without icon annotation (a number, a shortname, both, or
\* no structure at all) the name built from the parsed parts is the name itself,
\* so the shutdown pass issues no command for that workspace.
C13_RoundTrip ==
  pc \in {"exit", "exited"} =>
    \A k \in 1..idx :
      ~Annotated(tree[k].name) =>
        /\ construct_workspace_name(parse_workspace_name(tree[k].name)) = tree[k].name
        /\ computed[k] = tree[k].name
        /\ \A i \in 1..Len(cmds) : cmds[i].old # tree[k].name

\* The shutdown pass left the workspace "w:1", a name without structure, alone.
C13_Witness ==
  /\ pc = "exited"
  /\ Len(tree) = 1
  /\ tree[1].name = <<"w", ":", "1">>
  /\ ws = tree
  /\ cmds = <<>>

\* The mark of a mode's count digits.
ModeMark == IF icon_list_format = "mathematician" THEN "^" ELSE "_"

ScriptDigits == { ModeMark \o DigitChars[i] : i \in 1..10 }

ScriptValue(c) == (CHOOSE i \in 1..10 : ModeMark \o DigitChars[i] = c) - 1

RECURSIVE ScriptNumber(_)
ScriptNumber(ds) ==
  IF ds = <<>> THEN 0
  ELSE 10 * ScriptNumber(SubSeq(ds, 1, Len(ds) - 1)) + ScriptValue(ds[Len(ds)])

\* The counts read back from a rendering: an icon counts 1, or the number written
\* behind it.
RECURSIVE DecodedSum(_)
DecodedSum(text) ==
  IF text = <<>> THEN 0
  ELSE LET k == run_length(text, 2, ScriptDigits)
       IN (IF k = 0 THEN 1 ELSE ScriptNumber(SubSeq(text, 2, k + 1)))
          + DecodedSum(SubSeq(text, k + 2, Len(text)))

\* The runs of adjacent identical icons, in order: <<[icon, count], ...>>.
RECURSIVE AdjacentRuns(_)
AdjacentRuns(icons) ==
  IF icons = <<>> THEN <<>>
  ELSE LET k == run_length(icons, 1, {icons[1]})
       IN <<[icon |-> icons[1], count |-> k]>>
          \o AdjacentRuns(SubSeq(icons, k + 1, Len(icons)))

Occurrences(icons, x) == Cardinality({ j \in 1..Len(icons) : icons[j] = x })

\* The positions at which an icon occurs for the first time.
FirstOccurrences(icons) ==
  { j \in 1..Len(icons) : \A i \in 1..(j - 1) : icons[i] # icons[j] }

\* Every icon once, in the order of first occurrence, with its count behind it
\* when the count is greater than 1.
RECURSIVE Factorized(_, _)
Factorized(icons, from) ==
  IF \A j \in FirstOccurrences(icons) : j < from THEN <<>>
  ELSE LET j == Min({ i \in FirstOccurrences(icons) : i >= from })
           c == Occurrences(icons, icons[j])
       IN <<icons[j]>>
          \o (IF c > 1 THEN [i \in 1..Len(str(c)) |-> ModeMark \o str(c)[i]] ELSE <<>>)
          \o Factorized(icons, j + 1)

AllKeysLower(table) ==
  \A i \in 1..Len(table) : \A j \in 1..Len(table[i].key) :
    table[i].key[j] \notin UpperSet

\* Every key of the two tables that lower-casing the source's tables gives is
\* lower-case.
LoweredKeysAreLower == AllKeysLower(LoweredIcons) /\ AllKeysLower(LoweredNames)

\* C15: the tables are lower-cased exactly once, before the first pass and before
\* any event is handled; from then on every key of both tables is lower-case, and
\* no pass, lookup or shutdown pass runs the step again or changes a table.
C15_LowercasedOnce ==
  /\ pc = "boot" => (lowercased = 0 /\ npass = 0 /\ delivered = <<>>)
  /\ pc # "boot" =>
       /\ lowercased = 1
       /\ CurrentIcons = LoweredIcons
       /\ CurrentNames = LoweredNames
       /\ LoweredKeysAreLower

\* Two passes and the shutdown pass have run; the step has run once.
C15_Witness ==
  /\ pc = "exited"
  /\ npass = 2
  /\ delivered # <<>>
  /\ lowercased = 1

\* The name value, lower-cased, is the key (exact mode) or starts with it (prefix
\* mode).
ValueMatchesKey(value, key) ==
  IF REQUIRE_EXACT_NAME_MATCH
    THEN lower(value) = key
    ELSE /\ Len(key) <= Len(value)
         /\ \A j \in 1..Len(key) : lower(value)[j] = key[j]

\* C16: icon_for_name goes through the name values in list order, lower-cased;
\* the first value that matches any key decides, by its first matching key in
\* table order; None is returned if and only if no value matches any key.
C16_FirstNameMatch ==
  pc = "resolved" =>
    LET values == win.wm_name.vals
        keys == [i \in 1..Len(WINDOW_NAMES) |-> WINDOW_NAMES[i].key]
        matching == { j \in 1..Len(values) :
                        \E i \in 1..Len(keys) : ValueMatchesKey(values[j], keys[i]) }
    IN IF matching = {}
         THEN name_icon_out = None
         ELSE LET value == values[Min(matching)]
                  i == Min({ k \in 1..Len(keys) : ValueMatchesKey(value, keys[k]) })
              IN name_icon_out = WINDOW_NAMES[i].icon

\* Prefix mode; the names "Ssh box" and "htop" both match: the first one decides.
C16_Witness ==
  /\ pc = "resolved"
  /\ ~REQUIRE_EXACT_NAME_MATCH
  /\ win.wm_name.vals = << <<"S","s","h"," ","b","o","x">>, <<"h","t","o","p">> >>
  /\ name_icon_out = "terminal"

\* C17: every entry of WINDOW_NAMES is effective: in exact mode and in prefix
\* mode, a window whose only name is a key of the table resolves by name to the
\* icon the table gives that key.
C17_EveryNameEntryEffective ==
  pc = "resolved" =>
    \A i \in 1..Len(WINDOW_NAMES) :
      (~win.wm_name.none /\ win.wm_name.vals = << WINDOW_NAMES[i].key >>) =>
        name_icon_out = WINDOW_NAMES[i].icon

\* C18: in every pass the reply of the first query and the workspaces of the
\* tree, fetched by the second query, have the same length and name the same
\* workspace, with its output, at every index, also when a workspace was
\* created, removed or moved between the two queries; so the output used for the
\* gap decision at position i is the output of the workspace at position i.
C18_QueriesAgree ==
  pc \in {"pass", "crashed"} /\ tree # <<>> =>
    /\ Len(ws_infos) = Len(tree)
    /\ \A i \in 1..Len(tree) :
         /\ ws_infos[i].name = tree[i].name
         /\ ws_infos[i].output = tree[i].output

\* C19: with renumbering enabled, no command of a pass asks for a name that
\* another workspace has at that moment, the renames issued earlier in the pass
\* taken into account, whatever distinct names and numbers the workspaces had.
C19_TargetNameFree ==
  (pc \in {"pass", "idle"} /\ RENUMBER_WORKSPACES) =>
    \A i \in 1..Len(cmds) : ~cmds[i].taken /\ cmds[i].ok

====
